---- MODULE Spec2Model ----
(***************************************************************************)
(* Model of the ui-ux-pro-max search command line (scripts/search.py):     *)
(* flag validation, mode dispatch, the textual rendering of a result       *)
(* envelope, and the collaborators it calls into (the slug function, the   *)
(* master + overrides persistence of a design system, the lexical ranker). *)
(*                                                                         *)
(* Text is modelled as a sequence of one-character strings, so that the    *)
(* length, the prefix and the characters of a value are what the code      *)
(* sees.  An optional argument (argparse default None) is None or Some(v). *)
(***************************************************************************)
EXTENDS Integers, Sequences, FiniteSets, TLC

VARIABLES
    store,      \* the persisted store: file path |-> file content
    argv,       \* the command line of the invocation that ran (NoArgv before)
    status,     \* "ready" | "ok" | "error"  (exit of the invocation)
    error,      \* the argument error reported, NoError if none
    calls,      \* the retrieval calls the invocation made, in order
    written,    \* the paths the invocation wrote
    stdout,     \* what the invocation printed
    log,        \* the persisting invocations that built the store, oldest first
    name,       \* slug function: the input name
    fallback,   \* slug function: the fallback
    slug,       \* slug function: slugify(name, fallback)
    reslug,     \* slug function: slugify(slug, fallback)
    slugPc,     \* "input" | "done"
    result,     \* format_output: the result envelope
    rendered,   \* format_output: the lines before the final join
    text,       \* format_output: the returned string
    fmtPc,      \* "input" | "done"
    rkQuery,    \* rank: the query
    rkRows,     \* rank: the corpus rows, in source order
    rkLimit,    \* rank: the limit
    ranked,     \* rank: the returned row positions, in order
    rkPc        \* "input" | "done"

cliVars  == <<store, argv, status, error, calls, written, stdout, log>>
slugVars == <<name, fallback, slug, reslug, slugPc>>
fmtVars  == <<result, rendered, text, fmtPc>>
rankVars == <<rkQuery, rkRows, rkLimit, ranked, rkPc>>
vars     == <<cliVars, slugVars, fmtVars, rankVars>>

(***************************************************************************)
(* Text                                                                    *)
(***************************************************************************)
None == <<>>
Some(v) == <<v>>
IsSome(o) == Len(o) = 1
\* Python truthiness of an optional string: None and "" are both falsy.
Truthy(o) == IsSome(o) /\ Len(o[1]) > 0

UpperLetters ==
    <<"A","B","C","D","E","F","G","H","I","J","K","L","M",
      "N","O","P","Q","R","S","T","U","V","W","X","Y","Z">>
LowerLetters ==
    <<"a","b","c","d","e","f","g","h","i","j","k","l","m",
      "n","o","p","q","r","s","t","u","v","w","x","y","z">>
Digits == {"0","1","2","3","4","5","6","7","8","9"}
Range(s) == {s[i] : i \in DOMAIN s}
UpperSet == Range(UpperLetters)
LowerSet == Range(LowerLetters)
IsUpper(c) == c \in UpperSet
IsLower(c) == c \in LowerSet
IsAlnum(c) == IsUpper(c) \/ IsLower(c) \/ c \in Digits
LetterIndex(letters, c) == CHOOSE i \in DOMAIN letters : letters[i] = c
LowerChar(c) == IF IsUpper(c) THEN LowerLetters[LetterIndex(UpperLetters, c)] ELSE c
UpperChar(c) == IF IsLower(c) THEN UpperLetters[LetterIndex(LowerLetters, c)] ELSE c
\* str.lower() and str.upper()
Lower(s) == [i \in DOMAIN s |-> LowerChar(s[i])]
Upper(s) == [i \in DOMAIN s |-> UpperChar(s[i])]

\* All texts over an alphabet of at most n characters.
RECURSIVE TextsUpTo(_, _)
TextsUpTo(alphabet, n) ==
    IF n = 0 THEN {<<>>}
    ELSE LET shorter == TextsUpTo(alphabet, n - 1)
         IN  shorter \cup {Append(s, c) : s \in shorter, c \in alphabet}

(***************************************************************************)
(* design_system._slugify_path_segment                                     *)
(***************************************************************************)
Sep == "-"

\* Every run of characters that are not letters or digits becomes one Sep.
RECURSIVE ReplaceRuns(_, _)
ReplaceRuns(s, acc) ==
    IF s = <<>> THEN acc
    ELSE IF IsAlnum(Head(s)) THEN ReplaceRuns(Tail(s), Append(acc, Head(s)))
    ELSE IF acc # <<>> /\ acc[Len(acc)] = Sep THEN ReplaceRuns(Tail(s), acc)
    ELSE ReplaceRuns(Tail(s), Append(acc, Sep))

StripLeading(s) == IF s # <<>> /\ Head(s) = Sep THEN Tail(s) ELSE s
StripTrailing(s) ==
    IF s # <<>> /\ s[Len(s)] = Sep THEN SubSeq(s, 1, Len(s) - 1) ELSE s
StripSep(s) == StripTrailing(StripLeading(s))

slugify(x, f) ==
    LET cleaned == StripSep(ReplaceRuns(Lower(x), <<>>))
    IN  IF cleaned = <<>> THEN f ELSE cleaned

\* Variant: an empty fallback.
FallbackEmpty == <<>>
\* The two fallbacks the program passes.
FallbackDefault == <<"d","e","f","a","u","l","t">>
FallbackPage == <<"p","a","g","e">>

(***************************************************************************)
(* The persisted store (the layout search.py reports, lines 123-130)       *)
(***************************************************************************)
Cwd == << <<"w","s">> >>
DesignSystemSeg == <<"d","e","s","i","g","n","-","s","y","s","t","e","m">>
PagesSeg == <<"p","a","g","e","s">>
MasterFile == <<"M","A","S","T","E","R",".","m","d">>
MdSuffix == <<".","m","d">>

\* Path(args.output_dir).resolve() of a relative one-segment directory.
Resolve(dir) == Cwd \o <<dir>>
BaseOutputDir(output_dir) ==
    IF Truthy(output_dir) THEN Resolve(output_dir[1]) ELSE Cwd

\* args.project_name if args.project_name else args.query.upper()
ProjectName(query, project_name) ==
    IF Truthy(project_name) THEN project_name[1] ELSE Upper(query)
ProjectSlug(query, project_name) ==
    slugify(ProjectName(query, project_name), FallbackDefault)
DesignSystemDir(query, project_name, output_dir) ==
    BaseOutputDir(output_dir) \o <<DesignSystemSeg, ProjectSlug(query, project_name)>>
MasterPath(dir) == dir \o <<MasterFile>>
\* Variant: the page file named after the lowercased name, not its slug.
PageFilenameLowered(page) == Lower(page)
PageFilename(page) == slugify(page, FallbackPage)
\* Variant: pages/ placed beside the project directory, not inside it.
PagePathBesideProject(dir, page) ==
    SubSeq(dir, 1, Len(dir) - 1) \o <<PagesSeg, PageFilename(page) \o MdSuffix>>
PagePath(dir, page) == dir \o <<PagesSeg, PageFilename(page) \o MdSuffix>>

EmptyStore == [p \in {} |-> <<>>]
Exists(st, path) == path \in DOMAIN st
WriteFile(st, path, content) ==
    [p \in DOMAIN st \cup {path} |-> IF p = path THEN content ELSE st[p]]
IsMasterPath(path) == path[Len(path)] = MasterFile
IsPagePath(path) == ~IsMasterPath(path)
\* The project directory a store file lives in.
ProjectDirOf(path) ==
    IF IsPagePath(path) THEN SubSeq(path, 1, Len(path) - 2)
    ELSE SubSeq(path, 1, Len(path) - 1)

(***************************************************************************)
(* design_system.generate_design_system: synthesis and persistence         *)
(***************************************************************************)
\* The rendered document: a function of the seed query, the project name
\* and the presentation format, and of nothing else.
Document(query, project_name, format) ==
    <<query, ProjectName(query, project_name), format>>
\* The page override document: the document scoped to the page name.
PageDocument(document, page) == Append(document, page)

\* persist(document, project_name, page_name_or_none, output_dir): the store
\* after the writes, and the paths written, in the order they are written.
persist(st, document, query, project_name, page, output_dir) ==
    LET dir == DesignSystemDir(query, project_name, output_dir)
        withMaster == WriteFile(st, MasterPath(dir), document)
    IN  IF Truthy(page)
        THEN [store |-> WriteFile(withMaster, PagePath(dir, page[1]),
                                  PageDocument(document, page[1])),
              paths |-> <<MasterPath(dir), PagePath(dir, page[1])>>]
        ELSE [store |-> withMaster, paths |-> <<MasterPath(dir)>>]

\* generate_design_system(query, project_name, format, persist=, page=,
\* output_dir=) run on the store st.
generate_design_system(st, query, project_name, format, persistFlag, page, output_dir) ==
    IF persistFlag
    THEN persist(st, Document(query, project_name, format), query,
                 project_name, page, output_dir)
    ELSE [store |-> st, paths |-> <<>>]

(***************************************************************************)
(* search.py __main__: the argument parser                                 *)
(***************************************************************************)
\* The registered selector names (module docstring, lines 9-10).
Domains ==
    {"style", "color", "chart", "landing", "product", "ux", "typography",
     "icons", "react", "web"}
Stacks == {"html-tailwind", "react", "nextjs"}
MAX_RESULTS == 3

NoError == "none"
ErrInvalidDomain == "argument --domain/-d: invalid choice"
ErrInvalidStack == "argument --stack/-s: invalid choice"
ErrExclusive == "argument not allowed with argument"
ErrPageNeedsPersist == "--page requires --persist"
ErrNeedsDesignSystem ==
    "--persist/--page/--output-dir can only be used with --design-system"
ErrJsonDesignSystem == "--json is not supported with --design-system"

\* Variant: --stack declared without its choices.
SelectorErrorsStackUnchecked(a) ==
    LET badDomain == IsSome(a.domain) /\ a.domain[1] \notin Domains
    IN  IF IsSome(a.domain) /\ IsSome(a.stack)
        THEN {IF badDomain THEN ErrInvalidDomain ELSE ErrExclusive, ErrExclusive}
        ELSE IF badDomain THEN {ErrInvalidDomain}
        ELSE {}

\* What argparse reports for the selectors.  It handles the options in
\* command-line order: an option that conflicts with one already seen is
\* refused before its value is looked at, otherwise its value must be one
\* of the choices.  The order of --domain and --stack on the command line
\* is not part of argv here, so both orders are allowed for.
SelectorErrors(a) ==
    LET badDomain == IsSome(a.domain) /\ a.domain[1] \notin Domains
        badStack == IsSome(a.stack) /\ a.stack[1] \notin Stacks
    IN  IF IsSome(a.domain) /\ IsSome(a.stack)
        THEN {IF badDomain THEN ErrInvalidDomain ELSE ErrExclusive,
              IF badStack THEN ErrInvalidStack ELSE ErrExclusive}
        ELSE IF badDomain THEN {ErrInvalidDomain}
        ELSE IF badStack THEN {ErrInvalidStack}
        ELSE {}

\* parser.parse_args(): the defaults filled in.
parse_args(a) ==
    [a EXCEPT !.max_results =
        IF IsSome(a.max_results) THEN a.max_results ELSE Some(MAX_RESULTS)]

\* Lines 98-105: the flag combinations refused by parser.error.
FlagError(args) ==
    IF Truthy(args.page) /\ ~args.persist
    THEN ErrPageNeedsPersist
    ELSE IF (args.persist \/ Truthy(args.page) \/ Truthy(args.output_dir))
            /\ ~args.design_system
    THEN ErrNeedsDesignSystem
    ELSE IF args.design_system /\ args.json
    THEN ErrJsonDesignSystem
    ELSE NoError

\* Variant: the stack branch tested before the design-system branch.
ModeStackFirst(args) ==
    IF IsSome(args.stack) THEN "stack"
    ELSE IF args.design_system THEN "design-system"
    ELSE "domain"

\* Lines 108, 136, 144: design system takes priority, then stack, then domain.
Mode(args) ==
    IF args.design_system THEN "design-system"
    ELSE IF IsSome(args.stack) THEN "stack"
    ELSE "domain"

\* Variants: the call made without output_dir=, and without page=.
GenerateCallNoOutputDir(args) ==
    [fn |-> "generate_design_system", query |-> args.query,
     project_name |-> args.project_name, format |-> args.format,
     persist |-> args.persist, page |-> args.page, output_dir |-> None]
GenerateCallNoPage(args) ==
    [fn |-> "generate_design_system", query |-> args.query,
     project_name |-> args.project_name, format |-> args.format,
     persist |-> args.persist, page |-> None,
     output_dir |-> args.output_dir]

\* The call each mode makes (lines 109-116, 137, 145).
GenerateCall(args) ==
    [fn |-> "generate_design_system", query |-> args.query,
     project_name |-> args.project_name, format |-> args.format,
     persist |-> args.persist, page |-> args.page,
     output_dir |-> args.output_dir]
StackCall(args) ==
    [fn |-> "search_stack", query |-> args.query, stack |-> args.stack[1],
     max_results |-> args.max_results[1]]
DomainCall(args) ==
    [fn |-> "search", query |-> args.query, domain |-> args.domain,
     max_results |-> args.max_results[1]]

\* Lines 120-134: the persistence confirmation.
Confirmation(args) ==
    LET dir == DesignSystemDir(args.query, args.project_name, args.output_dir)
    IN  IF ~args.persist THEN <<>>
        ELSE << [persisted |-> dir,
                 files |-> <<MasterPath(dir)>> \o
                     (IF Truthy(args.page)
                      THEN <<PagePath(dir, args.page[1])>> ELSE <<>>)] >>

\* Lines 138-142, 146-150: the result as JSON or through format_output.
PrintResult(args, call) ==
    << [printed |-> IF args.json THEN "json" ELSE "format_output",
        of |-> call] >>

Exit(a, e) ==
    /\ argv' = a
    /\ status' = "error"
    /\ error' = e
    /\ calls' = <<>>
    /\ written' = {}
    /\ stdout' = <<>>
    /\ UNCHANGED <<store, log>>

DesignSystemMode(a, args) ==
    LET call == GenerateCall(args)
        done == generate_design_system(store, call.query, call.project_name,
                    call.format, call.persist, call.page, call.output_dir)
    IN  /\ argv' = a
        /\ status' = "ok"
        /\ error' = NoError
        /\ calls' = <<call>>
        /\ store' = done.store
        /\ written' = Range(done.paths)
        /\ stdout' = << [printed |-> "design-system", of |-> call] >>
                        \o Confirmation(args)
        /\ log' = IF call.persist THEN Append(log, a) ELSE log

SearchMode(a, args, call) ==
    /\ argv' = a
    /\ status' = "ok"
    /\ error' = NoError
    /\ calls' = <<call>>
    /\ written' = {}
    /\ stdout' = PrintResult(args, call)
    /\ UNCHANGED <<store, log>>

\* One run of the program on the command line a.
Main(a) ==
    IF SelectorErrors(a) # {}
    THEN \E e \in SelectorErrors(a) : Exit(a, e)
    ELSE LET args == parse_args(a)
         IN  IF FlagError(args) # NoError THEN Exit(a, FlagError(args))
             ELSE IF Mode(args) = "design-system" THEN DesignSystemMode(a, args)
             ELSE IF Mode(args) = "stack" THEN SearchMode(a, args, StackCall(args))
             ELSE SearchMode(a, args, DomainCall(args))

(***************************************************************************)
(* Command lines                                                           *)
(***************************************************************************)
SaaS == <<"S","a","a","S">>
Dash == <<"d","a","s","h">>
Acme == <<"A","c","m","e">>
AcmeCorp == <<"A","c","m","e"," ","C","o","r","p">>
HomePage == <<"H","o","m","e"," ","P","a","g","e">>
HomeDashPage == <<"h","o","m","e","-","p","a","g","e">>
Pricing == <<"p","r","i","c","i","n","g">>
Out == <<"o","u","t">>
Formats == {"ascii", "markdown"}

NoArgv == [query |-> <<>>]
Argv(queries, domains, stacks, limits, jsons, modes, projects, persists, pages, dirs) ==
    [query : queries, domain : domains, stack : stacks, max_results : limits,
     json : jsons, design_system : modes, project_name : projects,
     format : Formats, persist : persists, page : pages, output_dir : dirs]

\* Every flag, given and not given; selectors of both namespaces, of one
\* namespace only ("style", "nextjs") and of none ("bogus").
CliArgv ==
    Argv({SaaS},
         {None, Some("style"), Some("react"), Some("nextjs"), Some("bogus")},
         {None, Some("react"), Some("nextjs"), Some("style")},
         {None, Some(1)}, BOOLEAN, BOOLEAN, {None, Some(Acme)}, BOOLEAN,
         {None, Some(<<>>), Some(Pricing)}, {None, Some(<<>>), Some(Out)})

\* Persisting design-system invocations.
PersistArgv ==
    Argv({SaaS, Dash}, {None}, {None}, {None}, {FALSE}, {TRUE},
         {None, Some(AcmeCorp)}, {TRUE},
         {None, Some(HomePage), Some(HomeDashPage), Some(Pricing)},
         {None, Some(Out)})

PersistCmd(project, page) ==
    [query |-> SaaS, domain |-> None, stack |-> None, max_results |-> None,
     json |-> FALSE, design_system |-> TRUE, project_name |-> project,
     format |-> "markdown", persist |-> TRUE, page |-> page,
     output_dir |-> None]

\* The store a sequence of persisting invocations leaves.
RECURSIVE StoreAfter(_)
StoreAfter(cmds) ==
    IF cmds = <<>> THEN EmptyStore
    ELSE LET a == cmds[Len(cmds)]
         IN  generate_design_system(StoreAfter(SubSeq(cmds, 1, Len(cmds) - 1)),
                 a.query, a.project_name, a.format, a.persist, a.page,
                 a.output_dir).store

\* The stores one run of the program may find.
PriorLogs ==
    { <<>>,
      <<PersistCmd(Some(Acme), None)>>,
      <<PersistCmd(Some(Acme), Some(Pricing)), PersistCmd(None, Some(HomePage))>> }

(***************************************************************************)
(* Specifications                                                          *)
(***************************************************************************)
MaxPersists == 2

CliIdle ==
    /\ argv = NoArgv
    /\ status = "ready"
    /\ error = NoError
    /\ calls = <<>>
    /\ written = {}
    /\ stdout = <<>>
SlugIdle ==
    /\ name = <<>>
    /\ fallback = <<>>
    /\ slug = <<>>
    /\ reslug = <<>>
    /\ slugPc = "idle"
FmtIdle ==
    /\ result = <<>>
    /\ rendered = <<>>
    /\ text = <<>>
    /\ fmtPc = "idle"
RankIdle ==
    /\ rkQuery = <<>>
    /\ rkRows = <<>>
    /\ rkLimit = 0
    /\ ranked = <<>>
    /\ rkPc = "idle"

\* One run of the program, on any command line, over a store earlier runs left.
Init ==
    /\ \E prior \in PriorLogs : log = prior /\ store = StoreAfter(prior)
    /\ CliIdle /\ SlugIdle /\ FmtIdle /\ RankIdle
Invoke ==
    /\ status = "ready"
    /\ \E a \in CliArgv : Main(a)
    /\ UNCHANGED <<slugVars, fmtVars, rankVars>>
Next == Invoke
Spec == Init /\ [][Next]_vars

\* Successive persisting runs, from an empty store.
InitStore ==
    /\ log = <<>>
    /\ store = EmptyStore
    /\ CliIdle /\ SlugIdle /\ FmtIdle /\ RankIdle
PersistInvoke ==
    /\ Len(log) < MaxPersists
    /\ \E a \in PersistArgv : Main(a)
    /\ UNCHANGED <<slugVars, fmtVars, rankVars>>
NextStore == PersistInvoke
SpecStore == InitStore /\ [][NextStore]_vars

(***************************************************************************)
(* Properties of one run (specification Spec)                              *)
(***************************************************************************)
Ran == status # "ready"
ArgumentErrors ==
    {ErrInvalidDomain, ErrInvalidStack, ErrExclusive, ErrPageNeedsPersist,
     ErrNeedsDesignSystem, ErrJsonDesignSystem}
Rejected ==
    /\ status = "error"
    /\ error \in ArgumentErrors
    /\ calls = <<>>
    /\ written = {}
    /\ store = StoreAfter(log)

\* The invalid combinations, by the flags given on the command line.
InvalidCombination(a) ==
    \/ IsSome(a.page) /\ ~a.persist
    \/ (a.persist \/ IsSome(a.page) \/ IsSome(a.output_dir)) /\ ~a.design_system
    \/ a.design_system /\ a.json

\* C1: every invocation whose flags form an invalid combination (--page
\* without --persist; --persist, --page or --output-dir without
\* --design-system; --design-system with --json) is rejected with an
\* argument error, and makes no retrieval call and no file write.
C1_InvalidFlagsRejected ==
    (Ran /\ InvalidCombination(argv)) => Rejected

\* C7 as stated: a name accepted as a domain selector is no stack name, a
\* name accepted as a stack selector is no domain name, and a selector
\* registered only in the other namespace is rejected.
C7_DisjointNamespaces ==
    /\ (status = "ok" /\ IsSome(argv.domain)) => argv.domain[1] \notin Stacks
    /\ (status = "ok" /\ IsSome(argv.stack)) => argv.stack[1] \notin Domains
    /\ (Ran /\ IsSome(argv.domain) /\ argv.domain[1] \in Stacks \ Domains)
           => Rejected
    /\ (Ran /\ IsSome(argv.stack) /\ argv.stack[1] \in Domains \ Stacks)
           => Rejected

\* C7 amended: each selector is resolved in its own namespace only.  A
\* --domain value is accepted only if it is a registered domain and is then
\* looked up by search, never by search_stack; a --stack value only if it
\* is a registered stack, looked up by search_stack; a name registered only
\* in the other namespace is rejected with an invalid-choice error and no
\* retrieval call; and --domain together with --stack is rejected.
C7_OwnNamespaceOnly ==
    /\ (status = "ok" /\ IsSome(argv.domain)) =>
           /\ argv.domain[1] \in Domains
           /\ argv.stack = None
           /\ \A i \in DOMAIN calls : calls[i].fn # "search_stack"
           /\ \A i \in DOMAIN calls :
                  calls[i].fn = "search" => calls[i].domain = argv.domain
    /\ (status = "ok" /\ IsSome(argv.stack)) =>
           /\ argv.stack[1] \in Stacks
           /\ argv.domain = None
           /\ \A i \in DOMAIN calls : calls[i].fn # "search"
           /\ \A i \in DOMAIN calls :
                  calls[i].fn = "search_stack" => calls[i].stack = argv.stack[1]
    /\ (Ran /\ IsSome(argv.domain) /\ argv.domain[1] \notin Domains) =>
           /\ Rejected
           /\ argv.stack = None => error = ErrInvalidDomain
    /\ (Ran /\ IsSome(argv.stack) /\ argv.stack[1] \notin Stacks) =>
           /\ Rejected
           /\ argv.domain = None => error = ErrInvalidStack
C7_Witness ==
    /\ status = "error"
    /\ error = ErrInvalidStack
    /\ argv.stack = Some("style")
    /\ argv.domain = None
    /\ ~argv.design_system
    /\ store # EmptyStore

\* C10: an invocation that passes validation makes exactly one retrieval
\* call, generate_design_system if --design-system is given (whatever
\* selector comes with it), else search_stack if --stack is given, else
\* search; and unless it is a design-system run with --persist, every file
\* of the store is as it was.
C10_OneModeByPriority ==
    [][status' = "ok" =>
        /\ Len(calls') = 1
        /\ calls'[1].fn =
               (IF argv'.design_system THEN "generate_design_system"
                ELSE IF IsSome(argv'.stack) THEN "search_stack" ELSE "search")
        /\ ~(argv'.design_system /\ argv'.persist) =>
               (store' = store /\ written' = {})]_vars
C10_Witness ==
    /\ status = "ok"
    /\ argv.design_system
    /\ argv.stack = Some("react")
    /\ ~argv.persist
    /\ calls[1].fn = "generate_design_system"
    /\ store # EmptyStore

(***************************************************************************)
(* Properties of the store (specification SpecStore)                       *)
(***************************************************************************)
FilesIn(st, dir) == {p \in DOMAIN st : ProjectDirOf(p) = dir}
PagesIn(st, dir) == {p \in FilesIn(st, dir) : IsPagePath(p)}
DirOf(a) == DesignSystemDir(a.query, a.project_name, a.output_dir)
Persisted == status' = "ok" /\ argv'.design_system /\ argv'.persist
PricingMd == <<"p","r","i","c","i","n","g",".","m","d">>

\* C2: the store never holds a page override of a project whose MASTER.md
\* does not exist, and an invocation that writes a page override writes
\* the master of the same project too.
C2_PageImpliesMaster ==
    /\ \A p \in DOMAIN store :
           IsPagePath(p) => Exists(store, MasterPath(ProjectDirOf(p)))
    /\ \A p \in written :
           IsPagePath(p) => MasterPath(ProjectDirOf(p)) \in written
C2_Witness ==
    /\ Len(log) = 2
    /\ \E p \in written : IsPagePath(p) /\ Exists(store, p)
    /\ \E p \in DOMAIN store : IsPagePath(p) /\ p \notin written

\* C3: a persist for project P with page N changes at most P's MASTER.md
\* and P's pages/<slug(N)>.md; every other file of the store, of P or of
\* another project, exists after the call exactly if it did before, with
\* the same content.
C3_OtherFilesUntouched ==
    [][Persisted =>
        LET dir == DirOf(argv')
            target == {MasterPath(dir)} \cup
                (IF IsSome(argv'.page)
                 THEN {PagePath(dir, argv'.page[1])} ELSE {})
        IN  \A p \in (DOMAIN store \cup DOMAIN store') \ target :
                /\ p \in DOMAIN store
                /\ p \in DOMAIN store'
                /\ store'[p] = store[p]]_vars
C3_Witness ==
    /\ status = "ok"
    /\ Truthy(argv.page)
    /\ \E p \in PagesIn(store, DirOf(argv)) : p \notin written
    /\ PagePath(DirOf(argv), argv.page[1]) \in written

C5_SlugCollisionLastWins ==
    [][( /\ Persisted
         /\ log # <<>>
         /\ Truthy(argv'.page)
         /\ Truthy(log[Len(log)].page)
         /\ log[Len(log)].page # argv'.page
         /\ slugify(log[Len(log)].page[1], FallbackPage)
                = slugify(argv'.page[1], FallbackPage)
         /\ DirOf(log[Len(log)]) = DirOf(argv') ) =>
        LET dir == DirOf(argv')
            doc == Document(argv'.query, argv'.project_name, argv'.format)
        IN  /\ Exists(store', MasterPath(dir))
            /\ PagesIn(store', dir) = PagesIn(store, dir)
            /\ Cardinality({p \in PagesIn(store', dir) :
                   p[Len(p)] = slugify(argv'.page[1], FallbackPage) \o MdSuffix}) = 1
            /\ \A p \in PagesIn(store', dir) :
                   p[Len(p)] = slugify(argv'.page[1], FallbackPage) \o MdSuffix
                       => store'[p] = PageDocument(doc, argv'.page[1])]_vars
C5_Witness ==
    /\ Len(log) = 2
    /\ log[1].page = Some(HomePage)
    /\ log[2].page = Some(HomeDashPage)
    /\ log[1].project_name = Some(AcmeCorp)
    /\ log[2].project_name = Some(AcmeCorp)
    /\ log[1].output_dir = log[2].output_dir
    /\ log[1].query # log[2].query
    /\ Cardinality(PagesIn(store, DirOf(argv))) = 1
    /\ Exists(store, MasterPath(DirOf(argv)))

(***************************************************************************)
(* The slug function on its own (specification SpecSlug)                   *)
(***************************************************************************)
MaxNameLen == 3
SlugAlphabet == {"a", "B", "1", " ", ".", "/", "-"}
DotDotEtc == <<".",".","/",".",".","/","e","t","c">>
Symbols == <<"!","?","*">>
Names ==
    TextsUpTo(SlugAlphabet, MaxNameLen) \cup
        {DotDotEtc, Symbols, HomePage, HomeDashPage, AcmeCorp, Upper(SaaS)}
\* The fallbacks of the two call sites (lines 122 and 129).
Fallbacks == {FallbackDefault, FallbackPage}

InitSlug ==
    /\ name \in Names
    /\ fallback \in Fallbacks
    /\ slug = <<>>
    /\ reslug = <<>>
    /\ slugPc = "input"
    /\ log = <<>>
    /\ store = EmptyStore
    /\ CliIdle /\ FmtIdle /\ RankIdle
Slugify ==
    /\ slugPc = "input"
    /\ slug' = slugify(name, fallback)
    /\ slugPc' = "slugged"
    /\ UNCHANGED <<name, fallback, reslug, cliVars, fmtVars, rankVars>>
SlugifyAgain ==
    /\ slugPc = "slugged"
    /\ reslug' = slugify(slug, fallback)
    /\ slugPc' = "done"
    /\ UNCHANGED <<name, fallback, slug, cliVars, fmtVars, rankVars>>
NextSlug == Slugify \/ SlugifyAgain
SpecSlug == InitSlug /\ [][NextSlug]_vars

IsSlugChar(c) == IsLower(c) \/ c \in Digits \/ c = Sep
TruncLen == 300
Ellipsis == <<".",".",".">>
Newline == "\n"
DigitChars == <<"0","1","2","3","4","5","6","7","8","9">>

\* str(n) of a natural number.
RECURSIVE IntToText(_)
IntToText(n) ==
    IF n < 10 THEN <<DigitChars[n + 1]>>
    ELSE Append(IntToText(n \div 10), DigitChars[(n % 10) + 1])

\* A row value is a string or a number; str(value) is the text of either.
StrValue(t) == [kind |-> "str", chars |-> t, num |-> 0]
IntValue(n) == [kind |-> "int", chars |-> <<>>, num |-> n]
Str(value) == IF value.kind = "int" THEN IntToText(value.num) ELSE value.chars

\* Variant: the cut taken at len(value_str) >= 300.
TruncateInclusive(value) ==
    LET value_str == Str(value)
    IN  IF Len(value_str) >= TruncLen
        THEN SubSeq(value_str, 1, TruncLen) \o Ellipsis
        ELSE value_str

\* Lines 70-72.
Truncate(value) ==
    LET value_str == Str(value)
    IN  IF Len(value_str) > TruncLen
        THEN SubSeq(value_str, 1, TruncLen) \o Ellipsis
        ELSE value_str

FieldPrefix == <<"-"," ","*","*">>
FieldInfix == <<":","*","*"," ">>
\* Line 73: a field is a pair <<key, value>>.
FieldLine(f) == FieldPrefix \o f[1] \o FieldInfix \o Truncate(f[2])

\* Lines 67-74: the lines of row number i.
RowLines(i, row) ==
    << <<"#","#","#"," ","R","e","s","u","l","t"," ">> \o IntToText(i) >>
        \o [j \in DOMAIN row |-> FieldLine(row[j])]
        \o << <<>> >>
RECURSIVE ResultLines(_, _)
ResultLines(rows, i) ==
    IF i > Len(rows) THEN <<>>
    ELSE RowLines(i, rows[i]) \o ResultLines(rows, i + 1)

\* Lines 59-65.
HeaderLines(r) ==
    (IF Truthy(r.stack)
     THEN << <<"#","#"," ","U","I"," ","P","r","o"," ","M","a","x"," ","S","t","a","c","k"," ","G","u","i","d","e","l","i","n","e","s">>,
             <<"*","*","S","t","a","c","k",":","*","*"," ">> \o r.stack[1]
                 \o <<" ","|"," ","*","*","Q","u","e","r","y",":","*","*"," ">> \o r.query >>
     ELSE << <<"#","#"," ","U","I"," ","P","r","o"," ","M","a","x"," ","S","e","a","r","c","h"," ","R","e","s","u","l","t","s">>,
             <<"*","*","D","o","m","a","i","n",":","*","*"," ">> \o r.domain
                 \o <<" ","|"," ","*","*","Q","u","e","r","y",":","*","*"," ">> \o r.query >>)
    \o << <<"*","*","S","o","u","r","c","e",":","*","*"," ">> \o r.file
              \o <<" ","|"," ","*","*","F","o","u","n","d",":","*","*"," ">> \o IntToText(r.count)
              \o <<" ","r","e","s","u","l","t","s">> \o <<Newline>> >>

\* The list `output` when format_output returns.
OutputLines(r) ==
    IF IsSome(r.error)
    THEN << <<"E","r","r","o","r",":"," ">> \o r.error[1] >>
    ELSE HeaderLines(r) \o ResultLines(r.results, 1)

\* "\n".join(output)
RECURSIVE Join(_)
Join(lines) ==
    IF lines = <<>> THEN <<>>
    ELSE IF Len(lines) = 1 THEN lines[1]
    ELSE lines[1] \o <<Newline>> \o Join(Tail(lines))
format_output(r) == Join(OutputLines(r))

(***************************************************************************)
(* format_output on its own (specification SpecFormat)                     *)
(***************************************************************************)
MaxOver == 3
TextOfLen(n) == [i \in 1..n |-> DigitChars[(i % 10) + 1]]
ValueLens == {0, 1} \cup ((TruncLen - 1)..(TruncLen + MaxOver))
Values ==
    {StrValue(TextOfLen(n)) : n \in ValueLens}
        \cup {IntValue(n) : n \in {0, 7, 300, 12345}}
Keys == { <<"N","a","m","e">>, <<"D","o">> }
Fields == {<<k, v>> : k \in Keys, v \in Values}
Rows == {<<f>> : f \in Fields} \cup {<<f, g>> : f \in Fields, g \in Fields}
ShortRow == << << <<"N","a","m","e">>, StrValue(<<"C","a","r","d">>) >> >>
ResultLists == {<<>>} \cup {<<r>> : r \in Rows} \cup {<<ShortRow, r>> : r \in Rows}
StylesCsv == <<"s","t","y","l","e","s",".","c","s","v">>
Envelope(stack, rows) ==
    [error |-> None, stack |-> stack, domain |-> <<"s","t","y","l","e">>,
     query |-> Dash, file |-> StylesCsv, count |-> Len(rows), results |-> rows]
ErrorEnvelope ==
    [error |-> Some(<<"F","i","l","e"," ","n","o","t"," ","f","o","u","n","d">>), stack |-> None, domain |-> <<>>,
     query |-> <<>>, file |-> <<>>, count |-> 0, results |-> <<>>]
Envelopes ==
    {ErrorEnvelope} \cup
        {Envelope(st, rows) : st \in {None, Some(<<"r","e","a","c","t">>)}, rows \in ResultLists}

InitFormat ==
    /\ result \in Envelopes
    /\ rendered = <<>>
    /\ text = <<>>
    /\ fmtPc = "input"
    /\ log = <<>>
    /\ store = EmptyStore
    /\ CliIdle /\ SlugIdle /\ RankIdle
Format ==
    /\ fmtPc = "input"
    /\ rendered' = OutputLines(result)
    /\ text' = format_output(result)
    /\ fmtPc' = "done"
    /\ UNCHANGED <<result, cliVars, slugVars, rankVars>>
NextFormat == Format
SpecFormat == InitFormat /\ [][NextFormat]_vars

\* The line of `output` that renders field j of row i.
RECURSIVE LinesBefore(_, _)
LinesBefore(rows, i) ==
    IF i = 1 THEN Len(HeaderLines(result))
    ELSE LinesBefore(rows, i - 1) + Len(rows[i - 1]) + 2
RenderedField(i, j) ==
    LET line == rendered[LinesBefore(result.results, i) + 1 + j]
        key == result.results[i][j][1]
    IN  SubSeq(line, Len(FieldPrefix) + Len(key) + Len(FieldInfix) + 1, Len(line))
FieldsOf(r) == {<<i, j>> : i \in DOMAIN r.results, j \in 1..2}
RenderedFields ==
    {ij \in FieldsOf(result) : ij[2] \in DOMAIN result.results[ij[1]]}
Formatted == fmtPc = "done" /\ result.error = None

\* C8 as stated: the rendered value of every field has at most 300
\* characters, and a value of at most 300 characters is rendered unchanged.
C8_AtMost300 ==
    Formatted =>
        \A ij \in RenderedFields :
            LET value_str == Str(result.results[ij[1]][ij[2]][2])
                shown == RenderedField(ij[1], ij[2])
            IN  /\ Len(shown) <= TruncLen
                /\ Len(value_str) <= TruncLen => shown = value_str

\* C8 amended: the rendered value of every field has at most 303
\* characters; a value of at most 300 characters is rendered unchanged, and
\* a longer one as its first 300 characters followed by "...".
C8_First300PlusEllipsis ==
    Formatted =>
        \A ij \in RenderedFields :
            LET value_str == Str(result.results[ij[1]][ij[2]][2])
                shown == RenderedField(ij[1], ij[2])
            IN  /\ Len(shown) <= TruncLen + 3
                /\ Len(value_str) <= TruncLen => shown = value_str
                /\ Len(value_str) > TruncLen =>
                       /\ Len(shown) = TruncLen + 3
                       /\ \A k \in 1..TruncLen : shown[k] = value_str[k]
                       /\ \A k \in 1..3 : shown[TruncLen + k] = "."
C8_Witness ==
    /\ Formatted
    /\ \E ij \in RenderedFields :
           /\ Len(Str(result.results[ij[1]][ij[2]][2])) = TruncLen + 1
           /\ Len(RenderedField(ij[1], ij[2])) = TruncLen + 3
    /\ \E ij \in RenderedFields :
           /\ Len(Str(result.results[ij[1]][ij[2]][2])) = TruncLen
           /\ Len(RenderedField(ij[1], ij[2])) = TruncLen

(***************************************************************************)
(* core: the lexical ranker behind search and search_stack                 *)
(***************************************************************************)
\* Lowercase word tokens: the runs of letters and digits.
RECURSIVE Scan(_, _, _)
Scan(s, word, acc) ==
    IF s = <<>> THEN (IF word = <<>> THEN acc ELSE Append(acc, word))
    ELSE IF IsAlnum(Head(s)) THEN Scan(Tail(s), Append(word, LowerChar(Head(s))), acc)
    ELSE Scan(Tail(s), <<>>, IF word = <<>> THEN acc ELSE Append(acc, word))
Tokenize(s) == Scan(s, <<>>, <<>>)

Count(tokens, t) == Cardinality({i \in DOMAIN tokens : tokens[i] = t})
RECURSIVE Sum(_, _)
Sum(f, n) == IF n = 0 THEN 0 ELSE f[n] + Sum(f, n - 1)

\* Fixed-point arithmetic: a score is a multiple of 1/Scale.
Scale == 10000
\* ln(n / d) for n >= d > 0, as 2 atanh((n - d) / (n + d)).
LnScaled(n, d) ==
    LET z == ((n - d) * Scale) \div (n + d)
        z2 == (z * z) \div Scale
        z3 == (z * z2) \div Scale
        z5 == (z3 * z2) \div Scale
        z7 == (z5 * z2) \div Scale
        z9 == (z7 * z2) \div Scale
    IN  2 * (z + z3 \div 3 + z5 \div 5 + z7 \div 7 + z9 \div 9)

\* The BM25 score of row i: over the query's tokens, idf * tf * (k1 + 1) /
\* (tf + k1 * (1 - b + b * dl / avgdl)), with k1 = 3/2 and b = 3/4, and
\* idf = ln((N - df + 1/2) / (df + 1/2) + 1).
Score(query, rows, i) ==
    LET q == Tokenize(query)
        docs == [r \in DOMAIN rows |-> Tokenize(rows[r])]
        N == Len(rows)
        total == Sum([r \in DOMAIN rows |-> Len(docs[r])], N)
        dl == Len(docs[i])
        term(t) ==
            LET tf == Count(docs[i], t)
                df == Cardinality({r \in DOMAIN rows : Count(docs[r], t) > 0})
            IN  IF tf = 0 THEN 0
                ELSE (LnScaled(2 * N + 2, 2 * df + 1) * 20 * tf * total)
                         \div (8 * tf * total + 3 * total + 9 * dl * N)
    IN  Sum([k \in DOMAIN q |-> term(q[k])], Len(q))

\* Variant: an insertion that puts a row before the rows of equal score.
RECURSIVE InsertBeforeEqual(_, _, _)
InsertBeforeEqual(sorted, i, score) ==
    IF sorted = <<>> THEN <<i>>
    ELSE IF score[Head(sorted)] > score[i]
         THEN <<Head(sorted)>> \o InsertBeforeEqual(Tail(sorted), i, score)
         ELSE <<i>> \o sorted

\* Insertion that keeps equal scores in arrival order.
RECURSIVE InsertByScore(_, _, _)
InsertByScore(sorted, i, score) ==
    IF sorted = <<>> THEN <<i>>
    ELSE IF score[Head(sorted)] >= score[i]
         THEN <<Head(sorted)>> \o InsertByScore(Tail(sorted), i, score)
         ELSE <<i>> \o sorted
RECURSIVE SortByScore(_, _)
SortByScore(n, score) ==
    IF n = 0 THEN <<>>
    ELSE InsertByScore(SortByScore(n - 1, score), n, score)

\* rank(query, rows, limit): the positions of the top rows, best first;
\* rows that score zero are left out.
rank(query, rows, limit) ==
    LET score == [i \in DOMAIN rows |-> Score(query, rows, i)]
        sorted == SortByScore(Len(rows), score)
        hits == SelectSeq(sorted, LAMBDA i : score[i] > 0)
    IN  IF limit <= 0 THEN <<>>
        ELSE SubSeq(hits, 1, IF limit < Len(hits) THEN limit ELSE Len(hits))

(***************************************************************************)
(* The ranker on its own (specification SpecRank)                          *)
(***************************************************************************)
MaxRows == 3
RowTexts ==
    { <<"a">>, <<"A"," ","b">>, <<"b",","," ","c">>,
      <<"c"," ","a"," ","a">>, <<"-","-">> }
RankQueries == { <<>>, <<"a">>, <<"B"," ","a">>, <<"c","!">>, <<"x">> }
RECURSIVE SeqsUpTo(_, _)
SeqsUpTo(S, n) ==
    IF n = 0 THEN {<<>>}
    ELSE LET shorter == SeqsUpTo(S, n - 1)
         IN  shorter \cup {Append(s, x) : s \in shorter, x \in S}

InitRank ==
    /\ rkQuery \in RankQueries
    /\ rkRows \in SeqsUpTo(RowTexts, MaxRows)
    /\ rkLimit \in 0..MaxRows
    /\ ranked = <<>>
    /\ rkPc = "input"
    /\ log = <<>>
    /\ store = EmptyStore
    /\ CliIdle /\ SlugIdle /\ FmtIdle
Rank ==
    /\ rkPc = "input"
    /\ ranked' = rank(rkQuery, rkRows, rkLimit)
    /\ rkPc' = "done"
    /\ UNCHANGED <<rkQuery, rkRows, rkLimit, cliVars, slugVars, fmtVars>>
NextRank == Rank
SpecRank == InitRank /\ [][NextRank]_vars

\* C9: for a non-empty query over a populated corpus, the rows rank returns
\* are in non-increasing score order, and of two returned rows of equal
\* score the one earlier in the corpus comes first.
C9_SortedStable ==
    (rkPc = "done" /\ rkQuery # <<>> /\ rkRows # <<>>) =>
        \A i, j \in DOMAIN ranked :
            i < j =>
                LET si == Score(rkQuery, rkRows, ranked[i])
                    sj == Score(rkQuery, rkRows, ranked[j])
                IN  /\ si >= sj
                    /\ si = sj => ranked[i] < ranked[j]
C9_Witness ==
    /\ rkPc = "done"
    /\ Len(ranked) = 3
    /\ Score(rkQuery, rkRows, ranked[1]) > Score(rkQuery, rkRows, ranked[2])
    /\ Score(rkQuery, rkRows, ranked[2]) = Score(rkQuery, rkRows, ranked[3])
    /\ ranked[1] > ranked[2]
    /\ ranked[2] < ranked[3]

====
